---- MODULE Spec2Model ----
(***************************************************************************)
(* Model of src/types/input/tablet_pad.rs: the TabletPad owning wrapper,   *)
(* the TabletPadHandle weak handle and the Rc<AtomicBool> liveliness token *)
(* they share.  The token's strong count tells whether the tablet pad is   *)
(* still tracked; its boolean payload is the borrow lock.                  *)
(*                                                                         *)
(* The program is single threaded.  A call of run is split at the only     *)
(* place where caller code executes: RunBegin is run up to the invocation  *)
(* of the runner, RunEnd is the termination of the runner followed by the  *)
(* rest of run.  Every other operation is one action.                      *)
(***************************************************************************)
EXTENDS Integers, Sequences, FiniteSets

\* ---- bounds of the model ------------------------------------------------
MaxTokens == 2      \* calls of new_from_input_device that yield a TabletPad
MaxHandles == 2     \* TabletPadHandle values existing at the same time
MaxDerived == 1     \* TabletPads returned by upgrade and still held
MaxDepth == 2       \* nesting depth of run
MaxPtrs == 1        \* distinct wlr_input_device pointers

\* ---- values -------------------------------------------------------------
Tokens == 1..MaxTokens
HandleIds == 1..MaxHandles
Ptrs == 1..MaxPtrs
None == 0           \* Option::None / Weak::new(): no token
NullPtr == 0        \* ptr::null_mut()

NoPanic == "none"
NoCall == [op |-> "init", arg |-> 0, res |-> "none", panic |-> NoPanic, log |-> <<>>]

VARIABLES
    root,       \* root[t]: the TabletPad made by the factory call that made token t
    strong,     \* strong[t]: Rc::strong_count of token t
    weak,       \* weak[t]: Rc::weak_count of token t
    lock,       \* lock[t]: the AtomicBool payload of token t
    handles,    \* handles[h]: a TabletPadHandle (state, handle, pad)
    derived,    \* derived[t]: TabletPads returned by upgrade on token t, still held
    stack,      \* the active run calls, outermost first
    unwinding,  \* payload of the panic unwinding through the enclosing runner
    tampered,   \* tampered[t]: set_lock was called on the root of token t
    last        \* outcome of the most recent call

vars == <<root, strong, weak, lock, handles, derived, stack, unwinding, tampered, last>>

NoRoot == [state |-> "none", liveliness |-> None, pad |-> NullPtr]
NoHandle == [state |-> "none", handle |-> None, pad |-> NullPtr]

Init ==
    /\ root = [t \in Tokens |-> NoRoot]
    /\ strong = [t \in Tokens |-> 0]
    /\ weak = [t \in Tokens |-> 0]
    /\ lock = [t \in Tokens |-> FALSE]
    /\ handles = [h \in HandleIds |-> NoHandle]
    /\ derived = [t \in Tokens |-> 0]
    /\ stack = <<>>
    /\ unwinding = NoPanic
    /\ tampered = [t \in Tokens |-> FALSE]
    /\ last = NoCall

\* ---- helpers ------------------------------------------------------------
Live(h) == handles[h].state = "live"
TokenOf(h) == handles[h].handle
FreeTokens == {t \in Tokens : root[t].state = "none"}
FreeHandles == {h \in HandleIds : handles[h].state = "none"}
Min(S) == CHOOSE x \in S : \A y \in S : x <= y
InRun(h) == \E i \in 1..Len(stack) : stack[i].h = h
ActiveRuns(t) == {i \in 1..Len(stack) : handles[stack[i].h].handle = t}

\* Callers act only while no panic is unwinding.
Calm == unwinding = NoPanic

\* A panic raised by a call made inside a runner unwinds through that runner;
\* raised outside of every run it is observed by the caller at once.
Raise(p) == IF stack = <<>> THEN NoPanic ELSE p

\* Mutant: the strong count is not consulted.
WeakUpgradeIgnoresCount(t, s) == t # None

\* Weak::upgrade on a token observation: Some iff a strong reference exists.
WeakUpgrade(t, s) == t # None /\ s[t] > 0

\* ---- TabletPad ----------------------------------------------------------
\* The factory: Some(TabletPad) owning a fresh token whose lock is false iff
\* the device is a tablet pad, None otherwise.
new_from_input_device(device, type) ==
    /\ Calm
    /\ IF type = "WLR_INPUT_DEVICE_TABLET_PAD"
       THEN /\ FreeTokens # {}
            /\ LET t == Min(FreeTokens) IN
               /\ root' = [root EXCEPT ![t] = [state |-> "live", liveliness |-> t, pad |-> device]]
               /\ strong' = [strong EXCEPT ![t] = 1]
               /\ lock' = [lock EXCEPT ![t] = FALSE]
               /\ last' = [op |-> "new_from_input_device", arg |-> 0, res |-> "Some", panic |-> NoPanic, log |-> <<>>]
       ELSE /\ UNCHANGED <<root, strong, lock>>
            /\ last' = [op |-> "new_from_input_device", arg |-> 0, res |-> "None", panic |-> NoPanic, log |-> <<>>]
    /\ UNCHANGED <<weak, handles, derived, stack, unwinding, tampered>>

\* The TabletPad values a caller can hold: the roots made by the factory, the
\* ones returned by upgrade and the ones handed to the runners of active runs.
\* from_handle builds the latter two with liveliness: None.
RootPads == {[on |-> "root", of |-> t, liveliness |-> root[t].liveliness, pad |-> root[t].pad] :
                t \in {u \in Tokens : root[u].state = "live"}}
UpgradedPads == {[on |-> "derived", of |-> t, liveliness |-> None, pad |-> root[t].pad] :
                t \in {u \in Tokens : derived[u] > 0}}
RunnerPads == {[on |-> "derived", of |-> handles[stack[i].h].handle,
                liveliness |-> stack[i].pad.liveliness, pad |-> stack[i].pad.pad] :
                i \in 1..Len(stack)}
Pads == RootPads \cup UpgradedPads \cup RunnerPads

\* weak_reference: expect() panics on liveliness None, else Rc::downgrade.
weak_reference(w) ==
    /\ Calm
    /\ IF w.liveliness = None
       THEN /\ unwinding' = Raise("downgrade")
            /\ last' = [op |-> "weak_reference", arg |-> 0, res |-> "Panic", panic |-> "downgrade", log |-> <<>>]
            /\ UNCHANGED <<handles, weak>>
       ELSE /\ FreeHandles # {}
            /\ LET h == Min(FreeHandles) IN
               /\ handles' = [handles EXCEPT ![h] =
                                [state |-> "live", handle |-> w.liveliness, pad |-> w.pad]]
               /\ weak' = [weak EXCEPT ![w.liveliness] = @ + 1]
               /\ last' = [op |-> "weak_reference", arg |-> 0, res |-> "Ok", panic |-> NoPanic, log |-> <<>>]
            /\ UNCHANGED unwinding
    /\ UNCHANGED <<root, strong, lock, derived, stack, tampered>>

\* set_lock: expect() panics on liveliness None, else stores val in the lock.
set_lock(w, val) ==
    /\ Calm
    /\ IF w.liveliness = None
       THEN /\ unwinding' = Raise("set_lock")
            /\ last' = [op |-> "set_lock", arg |-> 0, res |-> "Panic", panic |-> "set_lock", log |-> <<>>]
            /\ UNCHANGED <<lock, tampered>>
       ELSE /\ lock' = [lock EXCEPT ![w.liveliness] = val]
            /\ tampered' = [tampered EXCEPT ![w.liveliness] = TRUE]
            /\ last' = [op |-> "set_lock", arg |-> 0, res |-> "Ok", panic |-> NoPanic, log |-> <<>>]
            /\ UNCHANGED unwinding
    /\ UNCHANGED <<root, strong, weak, handles, derived, stack>>

\* The two wlr_log!(L_DEBUG, ..) lines of Drop::drop.
Dropped == [msg |-> "Dropped TabletPad", count |-> 0]
StillWeak(n) == [msg |-> "Still weak pointers to TabletPad", count |-> n]

\* Mutant: the outstanding weak pointers are never reported.
DiagnosticsWithoutWeak(w) ==
    IF w.liveliness = None \/ strong[w.liveliness] # 1 THEN <<>> ELSE <<Dropped>>

\* Mutant: the weak pointers are reported also when there are none.
DiagnosticsAlwaysWeak(w) ==
    IF w.liveliness = None \/ strong[w.liveliness] # 1 THEN <<>>
    ELSE <<Dropped, StillWeak(weak[w.liveliness])>>

\* Drop::drop: what it logs.  Nothing for a TabletPad without liveliness and
\* nothing unless this is the last strong reference; else the "Dropped" line
\* and, when weak pointers remain, their number.
Diagnostics(w) ==
    IF w.liveliness = None
    THEN <<>>
    ELSE IF strong[w.liveliness] # 1
         THEN <<>>
         ELSE LET weak_count == weak[w.liveliness] IN
              IF weak_count > 0 THEN <<Dropped, StillWeak(weak_count)>> ELSE <<Dropped>>

\* Mutant: dropping a derived TabletPad gives the lock back.
dropReleasesLock(w) ==
    /\ Calm
    /\ IF w.liveliness = None
       THEN /\ derived[w.of] > 0
            /\ derived' = [derived EXCEPT ![w.of] = @ - 1]
            /\ lock' = [lock EXCEPT ![w.of] = FALSE]
            /\ UNCHANGED <<root, strong>>
       ELSE /\ root' = [root EXCEPT ![w.liveliness].state = "dropped"]
            /\ strong' = [strong EXCEPT ![w.liveliness] = @ - 1]
            /\ UNCHANGED <<derived, lock>>
    /\ last' = [op |-> "drop", arg |-> 0, res |-> "Ok", panic |-> NoPanic, log |-> Diagnostics(w)]
    /\ UNCHANGED <<weak, handles, stack, unwinding, tampered>>

\* Drop of a TabletPad.  Drop::drop only logs (and only for the last strong
\* holder of a root); the fields are dropped afterwards, which releases the
\* strong reference a root holds.
drop(w) ==
    /\ Calm
    /\ IF w.liveliness = None
       THEN /\ derived[w.of] > 0
            /\ derived' = [derived EXCEPT ![w.of] = @ - 1]
            /\ UNCHANGED <<root, strong>>
       ELSE /\ root' = [root EXCEPT ![w.liveliness].state = "dropped"]
            /\ strong' = [strong EXCEPT ![w.liveliness] = @ - 1]
            /\ UNCHANGED derived
    /\ last' = [op |-> "drop", arg |-> 0, res |-> "Ok", panic |-> NoPanic, log |-> Diagnostics(w)]
    /\ UNCHANGED <<weak, lock, handles, stack, unwinding, tampered>>

\* ---- TabletPadHandle ----------------------------------------------------
\* TabletPadHandle::new / Default: Weak::new() observes no token.
new ==
    /\ Calm
    /\ FreeHandles # {}
    /\ LET h == Min(FreeHandles) IN
       /\ handles' = [handles EXCEPT ![h] = [state |-> "live", handle |-> None, pad |-> NullPtr]]
       /\ last' = [op |-> "new", arg |-> 0, res |-> "Ok", panic |-> NoPanic, log |-> <<>>]
    /\ UNCHANGED <<root, strong, weak, lock, derived, stack, unwinding, tampered>>

\* Clone: the same pad and a clone of the Weak (one more weak reference when
\* the Weak observes a token).
clone(g) ==
    /\ Calm
    /\ Live(g)
    /\ FreeHandles # {}
    /\ LET h == Min(FreeHandles) IN
       /\ handles' = [handles EXCEPT ![h] =
                        [state |-> "live", handle |-> handles[g].handle, pad |-> handles[g].pad]]
       /\ last' = [op |-> "clone", arg |-> 0, res |-> "Ok", panic |-> NoPanic, log |-> <<>>]
    /\ weak' = IF TokenOf(g) = None THEN weak ELSE [weak EXCEPT ![TokenOf(g)] = @ + 1]
    /\ UNCHANGED <<root, strong, lock, derived, stack, unwinding, tampered>>

\* Drop of a handle (its Weak releases the weak reference).  A handle is
\* mutably borrowed by a run in progress on it and cannot be dropped then.
drop_handle(h) ==
    /\ Calm
    /\ Live(h)
    /\ ~InRun(h)
    /\ handles' = [handles EXCEPT ![h] = NoHandle]
    /\ weak' = IF TokenOf(h) = None THEN weak ELSE [weak EXCEPT ![TokenOf(h)] = @ - 1]
    /\ last' = [op |-> "drop_handle", arg |-> 0, res |-> "Ok", panic |-> NoPanic, log |-> <<>>]
    /\ UNCHANGED <<root, strong, lock, derived, stack, unwinding, tampered>>

\* Mutant: a token that is checked out counts as gone.
HandleInputDeviceIfFree(h, s) ==
    IF WeakUpgrade(TokenOf(h), s) /\ ~lock[TokenOf(h)] THEN "Ok" ELSE "AlreadyDropped"

\* Mutant: the device is returned without probing the token.
HandleInputDeviceUnchecked(h, s) == "Ok"

\* TabletPadHandle::input_device, with s the strong counts at the call.  The
\* strong reference matched by Some(_) is a temporary of the match.
HandleInputDevice(h, s) ==
    IF WeakUpgrade(TokenOf(h), s) THEN "Ok" ELSE "AlreadyDropped"

input_device(h) ==
    /\ Calm
    /\ Live(h)
    /\ last' = [op |-> "input_device", arg |-> h, res |-> HandleInputDevice(h, strong), panic |-> NoPanic, log |-> <<>>]
    /\ UNCHANGED <<root, strong, weak, lock, handles, derived, stack, unwinding, tampered>>

\* Mutant: the derived TabletPad keeps the token of the handle.
from_handleKeepsToken(h, s) ==
    [res |-> HandleInputDevice(h, s), pad |-> [liveliness |-> handles[h].handle, pad |-> handles[h].pad]]

\* TabletPad::from_handle: the ? on the handle's input_device, then a TabletPad
\* without liveliness.
from_handle(h, s) ==
    IF HandleInputDevice(h, s) = "Ok"
    THEN [res |-> "Ok", pad |-> [liveliness |-> None, pad |-> handles[h].pad]]
    ELSE [res |-> HandleInputDevice(h, s), pad |-> [liveliness |-> None, pad |-> NullPtr]]

\* Mutant: the lock is taken without being tested.
UpgradeNoLockCheck(h) ==
    IF ~WeakUpgrade(TokenOf(h), strong)
    THEN [res |-> "AlreadyDropped", pad |-> from_handle(h, strong).pad, lock |-> lock,
          strong |-> strong]
    ELSE [res |-> "Ok", pad |-> from_handle(h, [strong EXCEPT ![TokenOf(h)] = @ + 1]).pad,
          lock |-> [lock EXCEPT ![TokenOf(h)] = TRUE], strong |-> strong]

\* Mutant: the strong reference `check` is kept by the TabletPad returned.
UpgradeRetainsCheck(h) ==
    IF ~WeakUpgrade(TokenOf(h), strong)
    THEN [res |-> "AlreadyDropped", pad |-> from_handle(h, strong).pad, lock |-> lock,
          strong |-> strong]
    ELSE IF lock[TokenOf(h)]
         THEN [res |-> "AlreadyBorrowed", pad |-> from_handle(h, strong).pad, lock |-> lock,
               strong |-> strong]
         ELSE [res |-> "Ok", pad |-> from_handle(h, strong).pad,
               lock |-> [lock EXCEPT ![TokenOf(h)] = TRUE],
               strong |-> [strong EXCEPT ![TokenOf(h)] = @ + 1]]

\* Mutant: one lock for all tokens.
UpgradeGlobalLock(h) ==
    IF ~WeakUpgrade(TokenOf(h), strong)
    THEN [res |-> "AlreadyDropped", pad |-> from_handle(h, strong).pad, lock |-> lock,
          strong |-> strong]
    ELSE IF \E u \in Tokens : lock[u]
         THEN [res |-> "AlreadyBorrowed", pad |-> from_handle(h, strong).pad, lock |-> lock,
               strong |-> strong]
         ELSE [res |-> "Ok", pad |-> from_handle(h, strong).pad,
               lock |-> [u \in Tokens |-> TRUE], strong |-> strong]

\* TabletPadHandle::upgrade as a function of the state: its result, the
\* TabletPad it returns and the lock values and strong counts it leaves.  The
\* strong reference `check` is held while the closure runs and released when
\* upgrade returns, on each of its paths.
Upgrade(h) ==
    LET t == TokenOf(h) IN
    IF ~WeakUpgrade(t, strong)
    THEN [res |-> "AlreadyDropped", pad |-> from_handle(h, strong).pad, lock |-> lock,
          strong |-> strong]
    ELSE LET held == [strong EXCEPT ![t] = @ + 1]
             made == from_handle(h, held)
             released == [held EXCEPT ![t] = @ - 1]
         IN  IF made.res # "Ok"
             THEN [res |-> made.res, pad |-> made.pad, lock |-> lock, strong |-> released]
             ELSE IF lock[t]
                  THEN [res |-> "AlreadyBorrowed", pad |-> made.pad, lock |-> lock,
                        strong |-> released]
                  ELSE [res |-> "Ok", pad |-> made.pad, lock |-> [lock EXCEPT ![t] = TRUE],
                        strong |-> released]

\* A direct call of upgrade; the caller keeps the returned TabletPad.
upgrade(h) ==
    /\ Calm
    /\ Live(h)
    /\ LET u == Upgrade(h) IN
       /\ lock' = u.lock
       /\ strong' = u.strong
       /\ last' = [op |-> "upgrade", arg |-> h, res |-> u.res, panic |-> NoPanic, log |-> <<>>]
       /\ IF u.res = "Ok"
          THEN /\ derived[TokenOf(h)] < MaxDerived
               /\ derived' = [derived EXCEPT ![TokenOf(h)] = @ + 1]
          ELSE UNCHANGED derived
    /\ UNCHANGED <<root, weak, handles, stack, unwinding, tampered>>

\* Mutant: run goes through its release step also when upgrade has failed.
RunBeginReleasesOnFailure(h) ==
    /\ Calm
    /\ Live(h)
    /\ LET u == Upgrade(h) IN
       /\ strong' = u.strong
       /\ IF u.res = "Ok"
          THEN /\ Len(stack) < MaxDepth
               /\ lock' = u.lock
               /\ stack' = Append(stack, [h |-> h, pad |-> u.pad])
               /\ last' = [op |-> "runner", arg |-> h, res |-> "Invoked", panic |-> NoPanic, log |-> <<>>]
          ELSE /\ lock' = IF WeakUpgrade(TokenOf(h), strong)
                          THEN [lock EXCEPT ![TokenOf(h)] = FALSE] ELSE lock
               /\ UNCHANGED stack
               /\ last' = [op |-> "run", arg |-> h, res |-> u.res, panic |-> NoPanic, log |-> <<>>]
    /\ UNCHANGED <<root, weak, handles, derived, unwinding, tampered>>

\* run up to the invocation of the runner: the ? on upgrade returns its error
\* without invoking the runner.
RunBegin(h) ==
    /\ Calm
    /\ Live(h)
    /\ LET u == Upgrade(h) IN
       /\ lock' = u.lock
       /\ strong' = u.strong
       /\ IF u.res = "Ok"
          THEN /\ Len(stack) < MaxDepth
               /\ stack' = Append(stack, [h |-> h, pad |-> u.pad])
               /\ last' = [op |-> "runner", arg |-> h, res |-> "Invoked", panic |-> NoPanic, log |-> <<>>]
          ELSE /\ UNCHANGED stack
               /\ last' = [op |-> "run", arg |-> h, res |-> u.res, panic |-> NoPanic, log |-> <<>>]
    /\ UNCHANGED <<root, weak, handles, derived, unwinding, tampered>>

\* Mutant: the lock is checked but never reset.
ReleaseKeepsLock(h, res) ==
    IF WeakUpgrade(TokenOf(h), strong) /\ ~lock[TokenOf(h)]
    THEN [panic |-> "lock", lock |-> lock, strong |-> strong]
    ELSE [panic |-> res, lock |-> lock, strong |-> strong]

\* Mutant: no catch_unwind, a panic of the runner skips the release.
ReleaseOnReturnOnly(h, res) ==
    IF res # NoPanic
    THEN [panic |-> res, lock |-> lock, strong |-> strong]
    ELSE IF WeakUpgrade(TokenOf(h), strong)
         THEN IF ~lock[TokenOf(h)]
              THEN [panic |-> "lock", lock |-> lock, strong |-> strong]
              ELSE [panic |-> res, lock |-> [lock EXCEPT ![TokenOf(h)] = FALSE],
                    strong |-> strong]
         ELSE [panic |-> res, lock |-> lock, strong |-> strong]

\* Mutant: the lock is reset without the sanity check.
ReleaseNoSanityCheck(h, res) ==
    IF WeakUpgrade(TokenOf(h), strong)
    THEN [panic |-> res, lock |-> [lock EXCEPT ![TokenOf(h)] = FALSE], strong |-> strong]
    ELSE [panic |-> res, lock |-> lock, strong |-> strong]

\* Mutant: a token that is gone is treated like a lock in the wrong state.
ReleaseExpectsToken(h, res) ==
    IF WeakUpgrade(TokenOf(h), strong) /\ lock[TokenOf(h)]
    THEN [panic |-> res, lock |-> [lock EXCEPT ![TokenOf(h)] = FALSE], strong |-> strong]
    ELSE [panic |-> "lock", lock |-> lock, strong |-> strong]

\* The rest of run after catch_unwind: the sanity check and the release of
\* the lock when the token is still alive.  res is what catch_unwind caught.
\* The strong reference `check` is released when the closure ends, by its
\* return or by the unwinding of its panic.
Release(h, res) ==
    LET t == TokenOf(h) IN
    IF WeakUpgrade(t, strong)
    THEN LET held == [strong EXCEPT ![t] = @ + 1]
             released == [held EXCEPT ![t] = @ - 1]
         IN  IF ~lock[t]
             THEN [panic |-> "lock", lock |-> lock, strong |-> released]
             ELSE [panic |-> res, lock |-> [lock EXCEPT ![t] = FALSE], strong |-> released]
    ELSE [panic |-> res, lock |-> lock, strong |-> strong]

\* What catch_unwind catches: the panic unwinding through the runner if there
\* is one, else the way the runner itself ends.
Caught(exit) == IF unwinding # NoPanic THEN unwinding ELSE exit

\* The runner of the innermost run terminates (exit is the panic it ends
\* with, NoPanic when it returns) and run finishes: Ok(res), or the panic is
\* raised to the caller of run.
RunEnd(exit) ==
    /\ stack # <<>>
    /\ LET f == stack[Len(stack)]
           r == Release(f.h, Caught(exit))
           rest == SubSeq(stack, 1, Len(stack) - 1)
       IN  /\ lock' = r.lock
           /\ strong' = r.strong
           /\ stack' = rest
           /\ unwinding' = IF rest = <<>> THEN NoPanic ELSE r.panic
           /\ last' = [op |-> "run", arg |-> f.h,
                       res |-> IF r.panic = NoPanic THEN "Ok" ELSE "Panic", panic |-> r.panic, log |-> <<>>]
    /\ UNCHANGED <<root, weak, handles, derived, tampered>>

\* The ways a runner ends by itself: it returns or it panics.
Exits == {NoPanic, "runner"}

\* ---- the program ----------------------------------------------------------
DeviceTypes == {"WLR_INPUT_DEVICE_TABLET_PAD", "WLR_INPUT_DEVICE_KEYBOARD"}

Next ==
    \/ \E device \in Ptrs, type \in DeviceTypes : new_from_input_device(device, type)
    \/ \E w \in Pads : weak_reference(w)
    \/ \E w \in Pads, val \in BOOLEAN : set_lock(w, val)
    \/ \E w \in RootPads \cup UpgradedPads : drop(w)
    \/ new
    \/ \E h \in HandleIds : clone(h)
    \/ \E h \in HandleIds : drop_handle(h)
    \/ \E h \in HandleIds : input_device(h)
    \/ \E h \in HandleIds : upgrade(h)
    \/ \E h \in HandleIds : RunBegin(h)
    \/ \E exit \in Exits : RunEnd(exit)

Spec == Init /\ [][Next]_vars

\* ---- vocabulary of the properties ----------------------------------------
RootAlive(t) == root[t].state = "live"
RootDropped(t) == root[t].state = "dropped"
HandlesOf(t) == {h \in HandleIds : Live(h) /\ TokenOf(h) = t}
Top == stack[Len(stack)]
TopToken == TokenOf(Top.h)
\* The derived TabletPads of token t in existence: those returned by upgrade
\* and still held, and those handed to the runners of the active runs.
DerivedCount(t) == derived[t] + Cardinality(ActiveRuns(t))
\* h is used for a checkout (upgrade or the beginning of run) in this step.
Checkout(h) == upgrade(h) \/ RunBegin(h)

C2_DeadHandleDetection ==
    [][ /\ \A h \in HandleIds :
            ( /\ Live(h) /\ TokenOf(h) # None
              /\ RootDropped(TokenOf(h))
              /\ Checkout(h) )
            => /\ last'.res = "AlreadyDropped"
               /\ stack' = stack /\ derived' = derived /\ lock' = lock
        /\ \A t \in Tokens : RootDropped(t) => RootDropped(t)'
      ]_vars

\* A run on a handle failed with AlreadyDropped after the root was dropped
\* with the lock held.
C2_Witness ==
    /\ last.op = "run" /\ last.res = "AlreadyDropped"
    /\ TokenOf(last.arg) # None
    /\ RootDropped(TokenOf(last.arg))
    /\ lock[TokenOf(last.arg)]

\* C3: when run returns Ok and the root is alive, the lock is false and an
\* upgrade on every handle of the token would succeed.
C3_ReleaseOnReturn ==
    [][ ( /\ \E exit \in Exits : RunEnd(exit)
          /\ last'.res = "Ok"
          /\ RootAlive(TopToken) )
        => /\ ~lock'[TopToken]
           /\ \A h \in HandlesOf(TopToken) : Upgrade(h)'.res = "Ok"
      ]_vars

\* run has returned Ok on a handle of a live root's token that a second
\* handle observes too, and the lock is false.
C3_Witness ==
    /\ last.op = "run" /\ last.res = "Ok"
    /\ RootAlive(TokenOf(last.arg))
    /\ ~lock[TokenOf(last.arg)]
    /\ Cardinality(HandlesOf(TokenOf(last.arg))) = 2

\* C4: when the runner ends with a panic, the root is alive and set_lock was
\* not used on it, run leaves the lock false, raises that same panic to its
\* caller, and an upgrade on every handle of the token would succeed.
C4_ReleaseOnPanic ==
    [][ ( /\ RunEnd("runner")
          /\ RootAlive(TopToken)
          /\ ~tampered[TopToken] )
        => /\ ~lock'[TopToken]
           /\ last'.res = "Panic"
           /\ last'.panic = Caught("runner")
           /\ (stack' # <<>> => unwinding' = Caught("runner"))
           /\ \A h \in HandlesOf(TopToken) : Upgrade(h)'.res = "Ok"
      ]_vars

\* run has raised the panic of its runner and left the lock false.
C4_Witness ==
    /\ last.op = "run" /\ last.res = "Panic" /\ last.panic = "runner"
    /\ RootAlive(TokenOf(last.arg))
    /\ ~tampered[TokenOf(last.arg)]
    /\ ~lock[TokenOf(last.arg)]

\* C5: (as documented) a run called inside the runner of another run on the
\* same TabletPad panics.
C5_NestedRunPanics ==
    [][ \A h \in HandleIds :
            ( /\ Live(h) /\ TokenOf(h) # None
              /\ ActiveRuns(TokenOf(h)) # {}
              /\ RootAlive(TokenOf(h)) /\ lock[TokenOf(h)]
              /\ RunBegin(h) )
            => last'.res = "Panic"
      ]_vars

\* C6: (as documented) the TabletPad handed to the runner of a run exists
\* only while the root TabletPad of its token is alive.
C6_ScopedLifetime ==
    \A i \in 1..Len(stack) : RootAlive(TokenOf(stack[i].h))

\* C7: the program restricted to the factory, weak_reference, clone, run
\* and the drop of a root.
NextRun ==
    \/ \E device \in Ptrs, type \in DeviceTypes : new_from_input_device(device, type)
    \/ \E w \in Pads : weak_reference(w)
    \/ \E w \in RootPads : drop(w)
    \/ \E h \in HandleIds : clone(h)
    \/ \E h \in HandleIds : RunBegin(h)
    \/ \E exit \in Exits : RunEnd(exit)

SpecRun == Init /\ [][NextRun]_vars

\* C7: in every state reached by the factory, weak_reference, clone, run and
\* the drop of a root, the lock of a live root's token is true only while a
\* run on that token is active.
C7_LockInvariant ==
    \A t \in Tokens : (RootAlive(t) /\ lock[t]) => ActiveRuns(t) # {}

\* A run is active on a live root's token, whose lock is held, while the
\* other token's lock is free.
C7_Witness ==
    /\ stack # <<>>
    /\ RootAlive(TopToken) /\ lock[TopToken]
    /\ \E t \in Tokens : RootAlive(t) /\ ~lock[t] /\ HandlesOf(t) # {}

\* C8 as stated: at most one derived TabletPad per token exists.
C8_AtMostOneDerived ==
    \A t \in Tokens : DerivedCount(t) <= 1

\* C8, amended: at most one derived TabletPad per token exists as long as
\* set_lock has not been used on the root of that token.
C8_AtMostOneDerivedUntampered ==
    \A t \in Tokens : ~tampered[t] => DerivedCount(t) <= 1

\* One derived TabletPad exists and an upgrade through another handle of the
\* same token was refused.
C8_Witness ==
    /\ last.op = "upgrade" /\ last.res = "AlreadyBorrowed"
    /\ LET t == TokenOf(last.arg) IN
       /\ ~tampered[t]
       /\ DerivedCount(t) = 1
       /\ Cardinality(HandlesOf(t)) = 2

\* C9: weak_reference on a derived TabletPad (returned by upgrade or handed
\* to a runner) panics and makes no handle; on a root it returns a new handle
\* observing the root's token and changes no lock.
C9_DowngradePrecondition ==
    [][ \A w \in Pads : weak_reference(w) =>
          IF w.on = "derived"
          THEN /\ last'.res = "Panic" /\ last'.panic = "downgrade"
               /\ handles' = handles /\ weak' = weak
               /\ (stack # <<>> => unwinding' = "downgrade")
          ELSE /\ last'.res = "Ok"
               /\ \E h \in HandleIds :
                    /\ ~Live(h)
                    /\ handles' = [handles EXCEPT ![h] = handles'[h]]
                    /\ handles'[h].state = "live"
                    /\ handles'[h].handle = w.of
               /\ lock' = lock
      ]_vars

\* weak_reference has panicked on the TabletPad handed to a runner.
C9_Witness ==
    /\ last.op = "weak_reference" /\ last.res = "Panic"
    /\ stack # <<>>
    /\ unwinding = "downgrade"

\* C10: on a handle made by TabletPadHandle::new() or cloned from one, run,
\* upgrade and input_device return AlreadyDropped, invoke no runner, hand
\* out no TabletPad and change no lock; its clones observe no token either.
C10_InvalidHandle ==
    [][ \A h \in HandleIds : (Live(h) /\ TokenOf(h) = None) =>
          /\ (Checkout(h) \/ input_device(h)) =>
                /\ last'.res = "AlreadyDropped"
                /\ stack' = stack /\ derived' = derived /\ lock' = lock
          /\ clone(h) => \A g \in HandleIds : (~Live(g) /\ Live(g)') => TokenOf(g)' = None
      ]_vars

\* run on a clone of an invalid handle failed while a token's lock was held.
C10_Witness ==
    /\ last.op = "run" /\ last.res = "AlreadyDropped"
    /\ TokenOf(last.arg) = None
    /\ Cardinality(HandlesOf(None)) = 2
    /\ \E t \in Tokens : RootAlive(t) /\ lock[t]

\* C11: input_device on a handle returns AlreadyDropped exactly when the
\* handle observes no token or the root of its token has been dropped, and
\* the device exactly when the root is alive, whatever the lock holds; it
\* changes no lock.
C11_HandleAccessor ==
    [][ \A h \in HandleIds : input_device(h) =>
          /\ last'.res = IF TokenOf(h) # None /\ RootAlive(TokenOf(h))
                         THEN "Ok" ELSE "AlreadyDropped"
          /\ lock' = lock
      ]_vars

\* input_device has returned the device while the lock of the token was held.
C11_Witness ==
    /\ last.op = "input_device" /\ last.res = "Ok"
    /\ RootAlive(TokenOf(last.arg))
    /\ lock[TokenOf(last.arg)]

\* C12: between calls the strong count of a token is 1 while its root is
\* alive and 0 otherwise (upgrade, run and input_device keep no strong
\* reference), no derived TabletPad owns a token, and the token is dead as
\* soon as the root is dropped, derived TabletPads or not.
C12_SingleStrongOwner ==
    /\ \A t \in Tokens : strong[t] = IF RootAlive(t) THEN 1 ELSE 0
    /\ \A w \in UpgradedPads \cup RunnerPads : w.liveliness = None
    /\ \A t \in Tokens : RootDropped(t) => \A h \in HandlesOf(t) : ~WeakUpgrade(t, strong)

\* The root was dropped while a derived TabletPad of its token is held after
\* a successful upgrade, and the token is dead.
C12_Witness ==
    /\ \E t \in Tokens : RootDropped(t) /\ derived[t] > 0 /\ strong[t] = 0
                         /\ HandlesOf(t) # {}
    /\ last.op = "drop"

\* C13: when the runner of a run has ended (by return or by panic) and the
\* root is alive with the lock false, run panics with "Lock in incorrect
\* state!" instead of returning Ok or raising the runner's panic, and the
\* lock stays false.
C13_TamperCheck ==
    [][ \A exit \in Exits :
          ( /\ RunEnd(exit)
            /\ RootAlive(TopToken)
            /\ ~lock[TopToken] )
          => /\ last'.res = "Panic" /\ last'.panic = "lock"
             /\ (stack' # <<>> => unwinding' = "lock")
             /\ ~lock'[TopToken]
      ]_vars

\* run has panicked on the lock of a live root after set_lock was used.
C13_Witness ==
    /\ last.op = "run" /\ last.res = "Panic" /\ last.panic = "lock"
    /\ RootAlive(TokenOf(last.arg))
    /\ tampered[TokenOf(last.arg)]
    /\ ~lock[TokenOf(last.arg)]

\* The root TabletPad of token t.
RootPad(t) == [on |-> "root", of |-> t, liveliness |-> root[t].liveliness, pad |-> root[t].pad]
\* A direct upgrade on a handle of t has just succeeded.
JustUpgraded(t) ==
    /\ last.op = "upgrade" /\ last.res = "Ok"
    /\ TokenOf(last.arg) = t
\* The lock of t is held although no run on t is in progress.
LockLeaked(t) == lock[t] /\ ActiveRuns(t) = {}

\* C14 as stated: after a direct upgrade has succeeded, the drop of a derived
\* TabletPad changes no lock, the lock stays true unless set_lock(false) is
\* called on the root, upgrade and run on the handles of the token return
\* AlreadyBorrowed while the root is alive and AlreadyDropped afterwards.
C14_LockLeak ==
    [][ /\ \A w \in UpgradedPads : drop(w) => lock' = lock
        /\ \A t \in Tokens : (RootAlive(t) /\ JustUpgraded(t)) =>
             /\ lock'[t] \/ set_lock(RootPad(t), FALSE)
             /\ \A h \in HandlesOf(t) : Checkout(h) => last'.res = "AlreadyBorrowed"
        /\ \A t \in Tokens : (RootDropped(t) /\ lock[t]) =>
             \A h \in HandlesOf(t) : Checkout(h) => last'.res = "AlreadyDropped"
      ]_vars

\* C14, amended: the same for a direct upgrade that succeeded while no run on
\* the token was in progress: from then on the lock is held with no run on
\* the token, and stays so until set_lock(false) on the root.
C14_LockLeakOutsideRun ==
    [][ /\ \A w \in UpgradedPads : drop(w) => lock' = lock
        /\ \A t \in Tokens : (RootAlive(t) /\ JustUpgraded(t) /\ ActiveRuns(t) = {}) =>
             LockLeaked(t)
        /\ \A t \in Tokens : (RootAlive(t) /\ LockLeaked(t)) =>
             /\ (lock'[t] /\ ActiveRuns(t)' = {}) \/ set_lock(RootPad(t), FALSE)
             /\ \A h \in HandlesOf(t) : Checkout(h) => last'.res = "AlreadyBorrowed"
        /\ \A t \in Tokens : (RootDropped(t) /\ lock[t]) =>
             \A h \in HandlesOf(t) : Checkout(h) => last'.res = "AlreadyDropped"
      ]_vars

\* The TabletPad returned by an upgrade was dropped, set_lock was never
\* used, and a later run on the token was refused.
C14_Witness ==
    /\ last.op = "run" /\ last.res = "AlreadyBorrowed"
    /\ LET t == TokenOf(last.arg) IN
       /\ RootAlive(t) /\ ~tampered[t]
       /\ LockLeaked(t)
       /\ derived[t] = 0

\* C15: the runner of the innermost run ends and run finishes.
RunnerEnds == \E exit \in Exits : RunEnd(exit)

\* C15: every runner terminates: a run at nesting depth i finishes after
\* finitely many steps of its runner.
RunnersTerminate == \A i \in 1..MaxDepth : SF_vars(RunnerEnds /\ Len(stack) = i)

SpecRunFair == Init /\ [][NextRun]_vars /\ RunnersTerminate

\* C15: when only run checks tokens out, a lock goes from false to true only
\* by the upgrade of a run that becomes the one active run on the token, and
\* from true to false only by the release step of that run; and once taken,
\* the lock of a live root is released again if the runners terminate.
C15_AcquireReleasePairing ==
    /\ [][ \A t \in Tokens : lock'[t] # lock[t] =>
             IF lock'[t]
             THEN /\ \E h \in HandlesOf(t) : RunBegin(h)
                  /\ ActiveRuns(t) = {}
                  /\ ActiveRuns(t)' = {Len(stack')}
             ELSE /\ RunnerEnds
                  /\ ActiveRuns(t) = {Len(stack)}
                  /\ ActiveRuns(t)' = {}
         ]_vars
    /\ \A t \in Tokens : (RootAlive(t) /\ lock[t]) ~> (~RootAlive(t) \/ ~lock[t])

\* A run nested in a run on the other token has released its lock while the
\* enclosing run still holds its own.
C15_Witness ==
    /\ last.op = "run" /\ last.res \in {"Ok", "Panic"}
    /\ Len(stack) = 1
    /\ TokenOf(last.arg) # TopToken
    /\ RootAlive(TokenOf(last.arg)) /\ ~lock[TokenOf(last.arg)]
    /\ RootAlive(TopToken) /\ lock[TopToken]

\* C16: an upgrade or a run that returns AlreadyBorrowed or AlreadyDropped
\* leaves every lock, every root and every strong count as they were,
\* invokes no runner and hands out no TabletPad; and the run whose runner
\* made a rejected nested run on its own token does not panic on the lock
\* when it finishes next.
C16_FailedCheckoutFrame ==
    [][ /\ \A h \in HandleIds :
             (Checkout(h) /\ last'.res \in {"AlreadyBorrowed", "AlreadyDropped"}) =>
                /\ lock' = lock /\ strong' = strong /\ root' = root
                /\ stack' = stack /\ derived' = derived /\ weak' = weak
        /\ ( /\ last.op = "run" /\ last.res = "AlreadyBorrowed"
             /\ stack # <<>>
             /\ TokenOf(last.arg) = TopToken
             /\ RunnerEnds )
           => last'.panic # "lock"
      ]_vars

\* A nested run on the token of the enclosing run was refused and the lock
\* of the enclosing run is still held.
C16_Witness ==
    /\ last.op = "run" /\ last.res = "AlreadyBorrowed"
    /\ stack # <<>>
    /\ TokenOf(last.arg) = TopToken
    /\ RootAlive(TopToken) /\ lock[TopToken] /\ ~tampered[TopToken]
    /\ strong[TopToken] = 1

\* C17: when the root was dropped while the runner of a run was executing,
\* run changes no lock and does not panic by itself: it returns Ok when the
\* runner returned and raises the runner's panic otherwise; and upgrade and
\* run on the handles of that token return AlreadyDropped although the lock
\* is still true.
C17_RootDroppedInRunner ==
    [][ /\ \A exit \in Exits :
             (RunEnd(exit) /\ RootDropped(TopToken)) =>
                /\ lock' = lock
                /\ last'.panic = Caught(exit)
                /\ last'.res = IF Caught(exit) = NoPanic THEN "Ok" ELSE "Panic"
        /\ \A h \in HandleIds :
             ( /\ Live(h) /\ TokenOf(h) # None
               /\ RootDropped(TokenOf(h)) /\ lock[TokenOf(h)]
               /\ Checkout(h) )
             => last'.res = "AlreadyDropped"
      ]_vars

\* run has returned Ok after its root was dropped inside the runner, and the
\* lock is left true.
C17_Witness ==
    /\ last.op = "run" /\ last.res = "Ok"
    /\ RootDropped(TokenOf(last.arg))
    /\ lock[TokenOf(last.arg)]
    /\ ~tampered[TokenOf(last.arg)]
    /\ stack = <<>>

\* C18: a factory call on a pointer that a live root already wraps makes a
\* second root with a token of its own; an upgrade or run on a handle of one
\* token neither reads nor writes the lock of another, so it succeeds when
\* its own root is alive and its own lock is free; and the drop of a root
\* makes upgrade fail with AlreadyDropped on its handles and leaves the
\* result of upgrade on the handles of the other tokens as it was.
C18_DuplicateFactoryCall ==
    [][ /\ \A device \in Ptrs :
             ( /\ new_from_input_device(device, "WLR_INPUT_DEVICE_TABLET_PAD")
               /\ \E u \in Tokens : RootAlive(u) /\ root[u].pad = device )
             => \E t \in Tokens :
                  /\ root[t].state = "none" /\ RootAlive(t)'
                  /\ root'[t].pad = device /\ root'[t].liveliness = t
                  /\ strong'[t] = 1 /\ ~lock'[t]
                  /\ \A u \in Tokens \ {t} :
                       root'[u] = root[u] /\ strong'[u] = strong[u] /\ lock'[u] = lock[u]
        /\ \A h \in HandleIds :
             (Live(h) /\ TokenOf(h) # None /\ Checkout(h)) =>
                /\ \A u \in Tokens \ {TokenOf(h)} : lock'[u] = lock[u]
                /\ (RootAlive(TokenOf(h)) /\ ~lock[TokenOf(h)])
                     => last'.res \in {"Ok", "Invoked"}
        /\ \A w \in RootPads : drop(w) =>
             \A h \in HandleIds : (Live(h) /\ TokenOf(h) # None) =>
                Upgrade(h)'.res = IF TokenOf(h) = w.of THEN "AlreadyDropped"
                                  ELSE Upgrade(h).res
      ]_vars

\* Two live roots wrap the same pointer and a derived TabletPad of each is
\* checked out at the same time.
C18_Witness ==
    \E t, u \in Tokens :
        /\ t # u
        /\ RootAlive(t) /\ RootAlive(u)
        /\ root[t].pad = root[u].pad
        /\ DerivedCount(t) >= 1 /\ DerivedCount(u) >= 1
        /\ lock[t] /\ lock[u]

\* C19: the drop of a root logs the "Dropped" line once, followed by the
\* "Still .. weak pointers" line with the number of the handles of its token
\* exactly when there are any; the drop of a derived TabletPad logs nothing;
\* no drop changes a lock, and a live root can be dropped whatever handles
\* exist and whatever its lock holds.
C19_TeardownDiagnostics ==
    /\ [][ \A w \in RootPads \cup UpgradedPads : drop(w) =>
             /\ lock' = lock
             /\ last'.log =
                  IF w.on = "derived" THEN <<>>
                  ELSE IF HandlesOf(w.of) = {} THEN <<Dropped>>
                  ELSE <<Dropped, StillWeak(Cardinality(HandlesOf(w.of)))>>
         ]_vars
    /\ [](Calm => \A w \in RootPads : ENABLED drop(w))

\* A root was dropped with its lock held and two handles outstanding, and
\* both lines were logged.
C19_Witness ==
    /\ last.op = "drop"
    /\ last.log = <<Dropped, StillWeak(2)>>
    /\ \E t \in Tokens : RootDropped(t) /\ lock[t] /\ Cardinality(HandlesOf(t)) = 2
====
